---- MODULE Spec2Model ----
(***************************************************************************)
(* Model of lancedb.connect and lancedb.connect_async                      *)
(* (python/python/lancedb/__init__.py).  One invocation at a time is       *)
(* followed statement by statement; the backend constructors and the       *)
(* native connector are collaborators whose calls are logged in `calls`.   *)
(***************************************************************************)
EXTENDS Integers, Sequences, FiniteSets, TLC

VARIABLES pc, fn, args, api_key, request_thread_pool, secs, env, pools,
          calls, outcome

vars == <<pc, fn, args, api_key, request_thread_pool, secs, env, pools,
          calls, outcome>>

(* ---------------- bounds ---------------- *)
MaxWorkers == 2
MaxSecs == 1

(* ---------------- values ---------------- *)
\* Optional[T]: None is the empty tuple, a present value v is <<v>>.
None == <<>>
Some(v) == <<v>>

Str(s) == [kind |-> "str", s |-> s]
PathObj(s) == [kind |-> "path", s |-> s]

DbPrefix == <<"d", "b", ":", "/", "/">>

URIs ==
  { Str(DbPrefix \o <<"m">>),                    \* "db://m"
    Str(<<"d", "b", ":", "/", "m">>),            \* "db:/m"  (near miss)
    Str(<<"D", "B", ":", "/", "/", "m">>),       \* "DB://m" (case differs)
    Str(<<"s", "3", ":", "/", "/", "b">>),       \* "s3://b"
    Str(<<"~", "/", "l">>),                      \* "~/l"
    Str(<<"/", "l">>),                           \* "/l"
    PathObj(<<"~", "/", "l">>) }                 \* Path("~/l")

ApiKeys == { None, Some(""), Some("ldb_x") }
EnvValues == { None, Some(""), Some("ldb_env") }
Regions == { "us-east-1", "eu-west-1" }
HostOverrides == { None, Some("http://h") }
Intervals == { None } \cup { Some(n) : n \in (0 - MaxSecs)..MaxSecs }
NoPool == [tag |-> "none"]
IntPool(k) == [tag |-> "int", n |-> k]
PoolRef(id) == [tag |-> "pool", id |-> id]
PoolSpecs == { NoPool, PoolRef("caller") }
                \cup { IntPool(k) : k \in (0 - 1)..MaxWorkers }
Kwargs == SUBSET { "bogus", "connection_timeout" }
StorageOptions == { None, Some("opts") }

CallerPool == [max_workers |-> 3, shutdown |-> FALSE]
NoOutcome == [status |-> "none", error |-> "none", handle |-> "none"]

(* ---------------- pure helpers ---------------- *)
\* str.startswith
startswith(s, prefix) ==
  /\ Len(s) >= Len(prefix)
  /\ SubSeq(s, 1, Len(prefix)) = prefix

\* line 95: isinstance(uri, str) and uri.startswith("db://")
IsRemote_shortPrefix(uri) ==
  uri.kind = "str" /\ startswith(uri.s, <<"d", "b", ":", "/">>)
IsRemote(uri) == uri.kind = "str" /\ startswith(uri.s, DbPrefix)

\* line 97: os.environ.get("LANCEDB_API_KEY")
EnvGet_emptyDefault(e) == IF e = None THEN Some("") ELSE e
EnvGet(e) == e

\* lines 96-97: the effective api_key after the environment fallback
ResolveApiKey_envFirst(key, e) == IF EnvGet(e) # None THEN EnvGet(e) ELSE key
ResolveApiKey(key, e) == IF key = None THEN EnvGet(e) ELSE key

\* lines 170-173: timedelta.total_seconds(), None kept as None
total_seconds(td) == td
ToSecs(interval) ==
  IF interval # None THEN Some(total_seconds(interval[1])) ELSE None

\* lancedb.common.sanitize_uri (URI Normalizer, spec section 4.1)
Schemes == { <<"s", "3", ":", "/", "/">>, <<"g", "s", ":", "/", "/">>,
             <<"a", "z", ":", "/", "/">>, DbPrefix }
HomeDir == <<"/", "h">>
Cwd == <<"/", "w", "/">>
sanitize_uri(uri) ==
  IF \E p \in Schemes : startswith(uri.s, p) THEN Str(uri.s)
  ELSE IF Len(uri.s) > 0 /\ uri.s[1] = "~" THEN Str(HomeDir \o Tail(uri.s))
  ELSE IF Len(uri.s) > 0 /\ uri.s[1] = "/" THEN Str(uri.s)
  ELSE Str(Cwd \o uri.s)

\* lines 102-109: the argument list of RemoteDBConnection(...)
RemoteArgs_dropKwargs(u, key, region, host, pool, kw) ==
  [ctor |-> "Remote", uri |-> u, api_key |-> key, region |-> region,
   host_override |-> host, request_thread_pool |-> pool, kwargs |-> {}]
RemoteArgs(u, key, region, host, pool, kw) ==
  [ctor |-> "Remote", uri |-> u, api_key |-> key, region |-> region,
   host_override |-> host, request_thread_pool |-> pool, kwargs |-> kw]

\* line 113: the argument list of LanceDBConnection(...)
LocalArgs_sanitized(u, interval) ==
  [ctor |-> "Local", uri |-> sanitize_uri(u),
   read_consistency_interval |-> interval]
LocalArgs(u, interval) ==
  [ctor |-> "Local", uri |-> u, read_consistency_interval |-> interval]

\* lines 176-183: the argument list of lancedb_connect(...)
NativeArgs(u, key, region, host, s, so) ==
  [ctor |-> "Native", uri |-> sanitize_uri(u), api_key |-> key,
   region |-> region, host_override |-> host,
   read_consistency_interval_secs |-> s, storage_options |-> so]

Logged(a, res) == [a |-> a, result |-> res]

Raise(err) == [status |-> "Failed", error |-> err, handle |-> "none"]
Return(h) == [status |-> "Connected", error |-> "none", handle |-> h]

(* ---------------- initial state ---------------- *)
NoArgs == [uri |-> Str(<<>>), api_key |-> None, region |-> "us-east-1",
           host_override |-> None, read_consistency_interval |-> None,
           request_thread_pool |-> NoPool, kwargs |-> {},
           storage_options |-> None]

Init ==
  /\ pc = "idle"
  /\ fn = "none"
  /\ args = NoArgs
  /\ api_key = None
  /\ request_thread_pool = NoPool
  /\ secs = None
  /\ env \in EnvValues
  /\ pools = ("caller" :> CallerPool)
  /\ calls = <<>>
  /\ outcome = NoOutcome

(* ---------------- the environment ---------------- *)
\* the process environment variable LANCEDB_API_KEY changes between calls
SetEnv ==
  /\ pc = "idle"
  /\ \E e \in EnvValues : e # env /\ env' = e
  /\ UNCHANGED <<pc, fn, args, api_key, request_thread_pool, secs, pools,
                 calls, outcome>>

(* ---------------- connect ---------------- *)
\* lines 30-39: entry, binding the parameters
CallConnect ==
  /\ pc = "idle"
  /\ \E u \in URIs, k \in ApiKeys, r \in Regions, h \in HostOverrides,
        i \in Intervals, p \in PoolSpecs, kw \in Kwargs :
       /\ args' = [uri |-> u, api_key |-> k, region |-> r,
                   host_override |-> h, read_consistency_interval |-> i,
                   request_thread_pool |-> p, kwargs |-> kw,
                   storage_options |-> None]
       /\ api_key' = k
       /\ request_thread_pool' = p
  /\ fn' = "connect"
  /\ pc' = "classify"
  /\ UNCHANGED <<secs, env, pools, calls, outcome>>

\* line 95
Classify_byApiKey ==
  /\ pc = "classify"
  /\ pc' = IF IsRemote(args.uri) \/ api_key # None THEN "cred" ELSE "kwcheck"
  /\ UNCHANGED <<fn, args, api_key, request_thread_pool, secs, env, pools,
                 calls, outcome>>
Classify ==
  /\ pc = "classify"
  /\ pc' = IF IsRemote(args.uri) THEN "cred" ELSE "kwcheck"
  /\ UNCHANGED <<fn, args, api_key, request_thread_pool, secs, env, pools,
                 calls, outcome>>

\* lines 96-99
ResolveCredential ==
  /\ pc = "cred"
  /\ api_key' = ResolveApiKey(api_key, env)
  /\ IF api_key' = None
       THEN /\ outcome' = Raise("MissingCredential")
            /\ pc' = "done"
       ELSE /\ pc' = "pool"
            /\ UNCHANGED outcome
  /\ UNCHANGED <<fn, args, request_thread_pool, secs, env, pools, calls>>

\* lines 100-101; ThreadPoolExecutor(n) raises ValueError for n <= 0
ProvisionPool ==
  /\ pc = "pool"
  /\ IF request_thread_pool.tag = "int"
       THEN IF request_thread_pool.n <= 0
              THEN /\ outcome' = Raise("InvalidConfig")
                   /\ pc' = "done"
                   /\ UNCHANGED <<request_thread_pool, pools>>
              ELSE /\ pools' = pools @@
                        ("created" :> [max_workers |-> request_thread_pool.n,
                                       shutdown |-> FALSE])
                   /\ request_thread_pool' = PoolRef("created")
                   /\ pc' = "remote"
                   /\ UNCHANGED outcome
       ELSE /\ pc' = "remote"
            /\ UNCHANGED <<request_thread_pool, pools, outcome>>
  /\ UNCHANGED <<fn, args, api_key, secs, env, calls>>

\* lines 102-109; the constructor returns a connection or raises
ConstructRemote_retry ==
  /\ pc = "remote"
  /\ LET a == RemoteArgs(args.uri, api_key[1], args.region,
                         args.host_override, request_thread_pool, args.kwargs)
     IN \E ok \in BOOLEAN :
          IF ok
            THEN /\ calls' = Append(calls, Logged(a, "returned"))
                 /\ outcome' = Return("Remote")
            ELSE /\ calls' = calls \o <<Logged(a, "raised"),
                                        Logged(a, "raised")>>
                 /\ outcome' = Raise("BackendConstructionFailure")
  /\ pc' = "done"
  /\ UNCHANGED <<fn, args, api_key, request_thread_pool, secs, env, pools>>
ConstructRemote ==
  /\ pc = "remote"
  /\ LET a == RemoteArgs(args.uri, api_key[1], args.region,
                         args.host_override, request_thread_pool, args.kwargs)
     IN \E ok \in BOOLEAN :
          IF ok
            THEN /\ calls' = Append(calls, Logged(a, "returned"))
                 /\ outcome' = Return("Remote")
            ELSE /\ calls' = Append(calls, Logged(a, "raised"))
                 /\ outcome' = Raise("BackendConstructionFailure")
  /\ pc' = "done"
  /\ UNCHANGED <<fn, args, api_key, request_thread_pool, secs, env, pools>>

\* lines 111-112
CheckKwargs ==
  /\ pc = "kwcheck"
  /\ IF args.kwargs # {}
       THEN /\ outcome' = Raise("InvalidConfig")
            /\ pc' = "done"
       ELSE /\ pc' = "local"
            /\ UNCHANGED outcome
  /\ UNCHANGED <<fn, args, api_key, request_thread_pool, secs, env, pools,
                 calls>>

\* line 113; the constructor returns a connection or raises
ConstructLocal ==
  /\ pc = "local"
  /\ LET a == LocalArgs(args.uri, args.read_consistency_interval)
     IN \E ok \in BOOLEAN :
          IF ok
            THEN /\ calls' = Append(calls, Logged(a, "returned"))
                 /\ outcome' = Return("Local")
            ELSE /\ calls' = Append(calls, Logged(a, "raised"))
                 /\ outcome' = Raise("BackendConstructionFailure")
  /\ pc' = "done"
  /\ UNCHANGED <<fn, args, api_key, request_thread_pool, secs, env, pools>>

(* ---------------- connect_async ---------------- *)
\* lines 116-125: entry, binding the parameters
CallConnectAsync ==
  /\ pc = "idle"
  /\ \E u \in URIs, k \in ApiKeys, r \in Regions, h \in HostOverrides,
        i \in Intervals, p \in PoolSpecs, so \in StorageOptions :
       /\ args' = [uri |-> u, api_key |-> k, region |-> r,
                   host_override |-> h, read_consistency_interval |-> i,
                   request_thread_pool |-> p, kwargs |-> {},
                   storage_options |-> so]
       /\ api_key' = k
       /\ request_thread_pool' = p
  /\ fn' = "connect_async"
  /\ pc' = "adapt"
  /\ UNCHANGED <<secs, env, pools, calls, outcome>>

\* lines 170-173
AdaptDuration ==
  /\ pc = "adapt"
  /\ secs' = ToSecs(args.read_consistency_interval)
  /\ pc' = "await"
  /\ UNCHANGED <<fn, args, api_key, request_thread_pool, env, pools, calls,
                 outcome>>

\* lines 176-183: the call of lancedb_connect, suspending at the await
AwaitNative ==
  /\ pc = "await"
  /\ calls' = Append(calls,
                Logged(NativeArgs(args.uri, api_key, args.region,
                                  args.host_override, secs,
                                  args.storage_options), "pending"))
  /\ pc' = "suspended"
  /\ UNCHANGED <<fn, args, api_key, request_thread_pool, secs, env, pools,
                 outcome>>

\* lines 175-184: the awaited connector completes; AsyncConnection wraps it
NativeComplete ==
  /\ pc = "suspended"
  /\ \E ok \in BOOLEAN :
       IF ok
         THEN /\ calls' = [calls EXCEPT ![Len(calls)].result = "returned"]
              /\ outcome' = Return("Async")
         ELSE /\ calls' = [calls EXCEPT ![Len(calls)].result = "raised"]
              /\ outcome' = Raise("BackendConstructionFailure")
  /\ pc' = "done"
  /\ UNCHANGED <<fn, args, api_key, request_thread_pool, secs, env, pools>>

(* ---------------- back to the caller ---------------- *)
\* the invocation is over; its frame and the call log are dropped
Finish ==
  /\ pc = "done"
  /\ pc' = "idle"
  /\ fn' = "none"
  /\ args' = NoArgs
  /\ api_key' = None
  /\ request_thread_pool' = NoPool
  /\ secs' = None
  /\ pools' = ("caller" :> CallerPool)
  /\ calls' = <<>>
  /\ outcome' = NoOutcome
  /\ UNCHANGED env

Next ==
  \/ SetEnv
  \/ CallConnect
  \/ Classify
  \/ ResolveCredential
  \/ ProvisionPool
  \/ ConstructRemote
  \/ CheckKwargs
  \/ ConstructLocal
  \/ CallConnectAsync
  \/ AdaptDuration
  \/ AwaitNative
  \/ NativeComplete
  \/ Finish

Spec == Init /\ [][Next]_vars

(* ---------------- vocabulary of the properties ---------------- *)
\* a location string that begins with "db://"
DbLocation(u) == u.kind = "str" /\ startswith(u.s, DbPrefix)

\* RemoteBackendConstructor(location, credential, region, host_override?,
\* worker_pool?): the keywords the remote backend recognizes
RemoteBackendParams ==
  { "db_url", "api_key", "region", "host_override", "request_thread_pool" }
Unrecognized(kw) == kw \ RemoteBackendParams

NonEmpty(o) == o # None /\ o # Some("")
Called(c) == \E i \in 1..Len(calls) : calls[i].a.ctor = c
InConnect == fn = "connect"
CredentialAvailable == args.api_key # None \/ env # None
PoolSizeOk ==
  ~(args.request_thread_pool.tag = "int" /\ args.request_thread_pool.n <= 0)
NegativeInterval ==
  /\ args.read_consistency_interval # None
  /\ args.read_consistency_interval[1] < 0

(* ---------------- C1 ---------------- *)
\* C1 (as stated): a connect call with a "db://" location and an
\* unrecognized keyword argument ends Failed with InvalidConfig and the
\* remote backend constructor is never invoked (stated for the calls whose
\* credential resolves and whose pool size is valid, so that only the
\* keyword arguments can be at fault).
C1_RejectedBeforeConstructor ==
  (pc = "done" /\ InConnect /\ DbLocation(args.uri)
     /\ Unrecognized(args.kwargs) # {}
     /\ CredentialAvailable /\ PoolSizeOk)
    => /\ outcome = Raise("InvalidConfig")
       /\ ~Called("Remote")

\* C1 (amended): connect does not reject extra keyword arguments on the
\* Remote path; once the credential is resolved and the pool provisioned the
\* remote backend constructor is invoked exactly once and receives exactly
\* the caller's extra keyword arguments; otherwise the call fails with
\* MissingCredential or with the pool size's InvalidConfig, and no
\* constructor is invoked.
C1_KwargsForwarded ==
  (pc = "done" /\ InConnect /\ DbLocation(args.uri)
     /\ Unrecognized(args.kwargs) # {})
    => IF CredentialAvailable /\ PoolSizeOk
         THEN /\ Len(calls) = 1
              /\ calls[1].a.ctor = "Remote"
              /\ calls[1].a.kwargs = args.kwargs
              /\ outcome.error \in {"none", "BackendConstructionFailure"}
         ELSE /\ calls = <<>>
              /\ outcome = IF CredentialAvailable
                             THEN Raise("InvalidConfig")
                             ELSE Raise("MissingCredential")

C1_Witness ==
  /\ pc = "done" /\ InConnect /\ DbLocation(args.uri)
  /\ "bogus" \in args.kwargs
  /\ Len(calls) = 1
  /\ calls[1].a.ctor = "Remote"
  /\ "bogus" \in calls[1].a.kwargs

(* ---------------- C2 ---------------- *)
\* C2 (as stated): the credential handed to the remote backend constructor
\* is the explicit argument when present and non-empty, otherwise the
\* environment value when present and non-empty; an empty credential is
\* never passed.
C2_NonEmptyPrecedence ==
  \A i \in 1..Len(calls) :
    calls[i].a.ctor = "Remote" =>
      /\ NonEmpty(args.api_key) => calls[i].a.api_key = args.api_key[1]
      /\ (~NonEmpty(args.api_key) /\ NonEmpty(env))
           => calls[i].a.api_key = env[1]
      /\ calls[i].a.api_key # ""

\* C2 (amended): the credential handed to the remote backend constructor is
\* the explicit argument whenever it is present (not None), even if empty;
\* otherwise it is the value of LANCEDB_API_KEY whenever that is set, even
\* if empty.
C2_PresencePrecedence ==
  \A i \in 1..Len(calls) :
    calls[i].a.ctor = "Remote" =>
      /\ args.api_key # None => calls[i].a.api_key = args.api_key[1]
      /\ (args.api_key = None /\ env # None) => calls[i].a.api_key = env[1]

C2_Witness ==
  /\ Called("Remote")
  /\ args.api_key = Some("ldb_x")
  /\ env = Some("ldb_env")
  /\ calls[1].a.api_key = "ldb_x"

(* ---------------- C3 ---------------- *)
\* C3: a connect call with a "db://" location, no explicit credential and
\* no credential in the environment never provisions a pool nor invokes a
\* constructor, and ends Failed with MissingCredential.
C3_MissingCredential ==
  (InConnect /\ DbLocation(args.uri) /\ args.api_key = None /\ env = None)
    => /\ calls = <<>>
       /\ DOMAIN pools = {"caller"}
       /\ pc \in {"classify", "cred", "done"}
       /\ pc = "done" => outcome = Raise("MissingCredential")

C3_Witness ==
  /\ pc = "done" /\ InConnect /\ DbLocation(args.uri)
  /\ args.api_key = None /\ env = None
  /\ args.request_thread_pool.tag = "int"
  /\ outcome.error = "MissingCredential"

(* ---------------- C4 ---------------- *)
\* C4: no execution of connect ends Failed while a pool that connect
\* created itself is still live (not shut down).
C4_PoolReleasedOnFailure ==
  (pc = "done" /\ InConnect /\ outcome.status = "Failed")
    => \A id \in DOMAIN pools \ {"caller"} : pools[id].shutdown

(* ---------------- C5 ---------------- *)
\* C5: a negative read-consistency interval is never passed on to the local
\* backend constructor or the native connector; the call ends Failed with
\* InvalidConfig instead.
C5_NegativeIntervalRejected ==
  /\ \A i \in 1..Len(calls) :
       /\ calls[i].a.ctor = "Local" =>
            \/ calls[i].a.read_consistency_interval = None
            \/ calls[i].a.read_consistency_interval[1] >= 0
       /\ calls[i].a.ctor = "Native" =>
            \/ calls[i].a.read_consistency_interval_secs = None
            \/ calls[i].a.read_consistency_interval_secs[1] >= 0
  /\ (pc = "done" /\ NegativeInterval
        /\ (fn = "connect_async"
             \/ (InConnect /\ ~DbLocation(args.uri) /\ args.kwargs = {})))
       => outcome = Raise("InvalidConfig")

(* ---------------- C6 ---------------- *)
\* C6: whenever connect invokes the remote backend constructor the
\* worker-pool argument is an actual pool: a new one with k workers for an
\* integer k > 0, the caller's own pool unchanged, and a new one when the
\* caller gave nothing.
C6_AlwaysAPool ==
  \A i \in 1..Len(calls) :
    calls[i].a.ctor = "Remote" =>
      LET p == calls[i].a.request_thread_pool
          g == args.request_thread_pool
      IN /\ p.tag = "pool"
         /\ p.id \in DOMAIN pools
         /\ g.tag = "int" => /\ g.n > 0
                             /\ p.id # "caller"
                             /\ pools[p.id].max_workers = g.n
         /\ g.tag = "pool" => /\ p = g
                              /\ pools[g.id] = CallerPool
         /\ g.tag = "none" => p.id # "caller"

C9_NormalizedLocation ==
  \A i \in 1..Len(calls) : calls[i].a.uri = sanitize_uri(args.uri)

\* C9 (amended): connect does not normalize: it classifies the caller's raw
\* input and the chosen backend constructor receives that input unchanged;
\* only connect_async hands the normalized location to the native
\* connector, after the duration was adapted.  Within connect the credential
\* is resolved before a pool is provisioned, and the constructor or
\* connector call comes last.
C9_StepOrder ==
  /\ \A i \in 1..Len(calls) :
       /\ calls[i].a.ctor \in {"Remote", "Local"} =>
            calls[i].a.uri = args.uri
       /\ calls[i].a.ctor = "Native" =>
            /\ calls[i].a.uri = sanitize_uri(args.uri)
            /\ calls[i].a.read_consistency_interval_secs = secs
  /\ "created" \in DOMAIN pools => api_key # None
  /\ pc \in {"pool", "remote"} => api_key # None
  /\ pc = "remote" => request_thread_pool.tag # "int"
  /\ calls # <<>> => pc \in {"suspended", "done"}

C9_Witness ==
  /\ pc = "done" /\ InConnect
  /\ Called("Local")
  /\ sanitize_uri(args.uri) # args.uri
  /\ calls[1].a.uri = args.uri

(* ---------------- C10 ---------------- *)
\* C10: a connect invocation is over only in Connected or Failed; a handle
\* exists only in Connected, after exactly one constructor invocation, which
\* returned; in Failed there is no handle, and no constructor is ever
\* invoked a second time.
C10_OneTerminalState ==
  InConnect =>
    /\ Len(calls) <= 1
    /\ pc = "done" <=> outcome.status \in {"Connected", "Failed"}
    /\ pc # "done" => outcome = NoOutcome
    /\ outcome.status = "Connected" =>
         /\ outcome.handle \in {"Remote", "Local"}
         /\ outcome.error = "none"
         /\ Len(calls) = 1
         /\ calls[1].result = "returned"
         /\ calls[1].a.ctor = outcome.handle
    /\ outcome.status = "Failed" =>
         /\ outcome.handle = "none"
         /\ outcome.error \in {"MissingCredential", "InvalidConfig",
                               "BackendConstructionFailure"}
         /\ outcome.error = "BackendConstructionFailure"
              <=> (Len(calls) = 1 /\ calls[1].result = "raised")

C10_Witness ==
  /\ pc = "done" /\ InConnect
  /\ outcome = Raise("BackendConstructionFailure")
  /\ Len(calls) = 1
  /\ calls[1].result = "raised"

====
